---- MODULE Spec2Model ----
(***************************************************************************)
(* Model of the sileo-vue toast store (store.ts), the promise adapter and  *)
(* the viewport scheduler (SileoToaster.vue).                              *)
(*                                                                         *)
(* A JavaScript object is a function from its own keys to values, so that  *)
(* an absent key, a key holding undefined and a key holding null stay      *)
(* three different things.  A number-or-null value is a tuple: << >> is    *)
(* null and <<n>> the number n.  The presentation payload (title, icon,    *)
(* description, fill, roundness, styles, button) is opaque to the store    *)
(* and the scheduler and is left out of the records.                       *)
(***************************************************************************)
EXTENDS Integers, Sequences, FiniteSets, TLC

VARIABLES
    toasts,      \* store.toasts: the registry, a sequence of SileoItem
    listeners,   \* store.listeners: the viewports subscribed
    position,    \* store.position
    options,     \* store.options
    idCounter,   \* idCounter of generateId
    exitQueue,   \* pending exit-removal setTimeout callbacks, oldest first
    viewports,   \* per viewport: mounted, toasts, activeId, hovered, timers
    pointer,     \* per viewport: the id of the toast under the pointer
    calls,       \* the sileo.promise invocations
    observers,   \* the other functions in store.listeners, and what each was told
    toast,       \* one SileoToast component: props, view, timers, header layers
    swipe,       \* the pointer tracking of the SileoToast rendering one record
    lastOp       \* the last step taken and the number of store.update calls it made

vars == <<toasts, listeners, position, options, idCounter, exitQueue,
          viewports, pointer, calls, observers, toast, swipe, lastOp>>

(* ------------------------------ Bounds --------------------------------- *)

MaxInstances == 3
MaxCalls == 1
MaxObserved == 3
TickMs == 300
MaxRefresh == 3
ToastTickMs == 150
ViewportTickMs == 2000

(* ----------------------------- Constants ------------------------------- *)

DEFAULT_DURATION == 6000
EXIT_DURATION == DEFAULT_DURATION \div 10
AUTO_EXPAND_DELAY == (DEFAULT_DURATION * 25) \div 1000
AUTO_COLLAPSE_DELAY == DEFAULT_DURATION - 2000

Undef == "undefined"
DefaultId == "sileo-default"
NullV == << >>
Num(n) == <<n>>
NoOpts == [k \in {} |-> Undef]
Fired == 0 - 1

SILEO_POSITIONS ==
    {"top-left", "top-center", "top-right",
     "bottom-left", "bottom-center", "bottom-right"}

Min(a, b) == IF a < b THEN a ELSE b
Max(a, b) == IF a > b THEN a ELSE b

(* ------------------------- Object helpers ------------------------------ *)

Has(o, k) == k \in DOMAIN o

\* o.k for a string-valued key: undefined when the key is absent
Get(o, k) == IF Has(o, k) THEN o[k] ELSE Undef

\* {...a, ...b}: the keys of b win, also when they hold undefined
Spread(a, b) == b @@ a

Exiting(t) == Has(t, "exiting") /\ t.exiting

IdsOf(list) == {list[i].id : i \in DOMAIN list}

Map(list, f(_)) == [i \in DOMAIN list |-> f(list[i])]

\* list.find(t => t.id === id), as the index of the first match or 0
FindIndex(list, id) ==
    IF \E i \in DOMAIN list : list[i].id = id
    THEN CHOOSE i \in DOMAIN list :
             /\ list[i].id = id
             /\ \A j \in DOMAIN list : list[j].id = id => i <= j
    ELSE 0

(* -------------------------------- Store -------------------------------- *)

timeoutKey(t) == <<t.id, t.instanceId>>

\* item.duration ?? DEFAULT_DURATION, as a number-or-null tuple
DurationOrDefault(o) ==
    IF ~Has(o, "duration") \/ o.duration = NullV
    THEN Num(DEFAULT_DURATION)
    ELSE o.duration

\* generateId without the increment of the counter
generateIdStale == idCounter

\* generateId: the counter part makes every id differ from the ones before;
\* the timestamp and random suffix add nothing to that
generateId == idCounter + 1

\* resolveAutopilot returning the configured delays without clamping them
resolveAutopilotUnclamped(opts, duration) ==
    IF \/ (Has(opts, "autopilot") /\ opts.autopilot = [bool |-> FALSE])
       \/ duration = NullV
       \/ duration[1] <= 0
    THEN [expandDelayMs |-> NullV, collapseDelayMs |-> NullV]
    ELSE LET cfg == IF Has(opts, "autopilot") /\ ~Has(opts.autopilot, "bool")
                    THEN opts.autopilot ELSE NoOpts
         IN  [expandDelayMs |->
                  Num(IF Has(cfg, "expand") THEN cfg.expand
                      ELSE AUTO_EXPAND_DELAY),
              collapseDelayMs |->
                  Num(IF Has(cfg, "collapse") THEN cfg.collapse
                      ELSE AUTO_COLLAPSE_DELAY)]

\* resolveAutopilot(opts, duration): << >> stands for an unset delay
resolveAutopilot(opts, duration) ==
    IF \/ (Has(opts, "autopilot") /\ opts.autopilot = [bool |-> FALSE])
       \/ duration = NullV
       \/ duration[1] = 0
       \/ duration[1] <= 0
    THEN [expandDelayMs |-> NullV, collapseDelayMs |-> NullV]
    ELSE LET cfg == IF Has(opts, "autopilot") /\ ~Has(opts.autopilot, "bool")
                    THEN opts.autopilot ELSE NoOpts
             clamp(v) == Min(duration[1], Max(0, v))
         IN  [expandDelayMs |->
                  Num(clamp(IF Has(cfg, "expand") THEN cfg.expand
                            ELSE AUTO_EXPAND_DELAY)),
              collapseDelayMs |->
                  Num(clamp(IF Has(cfg, "collapse") THEN cfg.collapse
                            ELSE AUTO_COLLAPSE_DELAY))]

\* mergeOptions(options): {...store.options, ...options}
mergeOptions(opts) == Spread(options, opts)

\* merged.position ?? fallbackPosition ?? store.position
resolvePosition(merged, fallbackPosition) ==
    IF Get(merged, "position") # Undef THEN merged.position
    ELSE IF fallbackPosition # Undef THEN fallbackPosition
    ELSE position

buildSileoItem(merged, id, fallbackPosition) ==
    LET duration == DurationOrDefault(merged)
        auto == resolveAutopilot(merged, duration)
    IN  Spread(merged,
               [id |-> id,
                instanceId |-> generateId,
                position |-> resolvePosition(merged, fallbackPosition),
                autoExpandDelayMs |-> auto.expandDelayMs,
                autoCollapseDelayMs |-> auto.collapseDelayMs])

(* ------------------------- Viewport scheduler -------------------------- *)

\* latest: the id of the last non-exiting record, or undefined
latest(list) ==
    IF \E i \in DOMAIN list : ~Exiting(list[i])
    THEN LET i == CHOOSE i \in DOMAIN list :
                      /\ ~Exiting(list[i])
                      /\ \A j \in DOMAIN list : ~Exiting(list[j]) => j <= i
         IN  list[i].id
    ELSE Undef

\* the guard of schedule's loop body for one item
needsTimer(timers, item) ==
    /\ ~Exiting(item)
    /\ timeoutKey(item) \notin DOMAIN timers
    /\ LET dur == DurationOrDefault(item)
       IN  ~(dur = NullV \/ dur[1] <= 0)

\* schedule(items): the timers map afterwards; a timer holds the
\* milliseconds left until it fires
schedule(vp, items) ==
    IF vp.hovered THEN vp.timers
    ELSE LET new == {i \in DOMAIN items : needsTimer(vp.timers, items[i])}
             keys == {timeoutKey(items[i]) : i \in new}
             first(k) == CHOOSE i \in new :
                             /\ timeoutKey(items[i]) = k
                             /\ \A j \in new : timeoutKey(items[j]) = k => i <= j
         IN  [k \in DOMAIN vp.timers \cup keys |->
                 IF k \in DOMAIN vp.timers THEN vp.timers[k]
                 ELSE DurationOrDefault(items[first(k)])[1]]

clearAllTimers(vp) == [vp EXCEPT !.timers = NoOpts]

\* listener leaving the timers of vanished keys alone
listenerKeepsTimers(vp, next) ==
    LET pruned == [vp EXCEPT !.toasts = next, !.activeId = latest(next)]
    IN  [pruned EXCEPT !.timers = schedule(pruned, next)]

\* listener(next): the store subscriber of a viewport
listener(vp, next) ==
    LET toastKeys == {timeoutKey(next[i]) : i \in DOMAIN next}
        kept == [k \in DOMAIN vp.timers \cap toastKeys |-> vp.timers[k]]
        pruned == [vp EXCEPT !.toasts = next, !.timers = kept,
                             !.activeId = latest(next)]
    IN  [pruned EXCEPT !.timers = schedule(pruned, next)]

\* enter marking the hover without cancelling the timers
enterKeepsTimers(vp, toastId) ==
    [vp EXCEPT !.activeId = toastId, !.hovered = TRUE]

\* getHandlers(toastId).enter
enter(vp, toastId) ==
    LET active == [vp EXCEPT !.activeId = toastId]
    IN  IF ~active.hovered
        THEN clearAllTimers([active EXCEPT !.hovered = TRUE])
        ELSE active

\* getHandlers(toastId).leave
leave(vp) ==
    LET active == [vp EXCEPT !.activeId = latest(vp.toasts)]
    IN  IF active.hovered
        THEN LET out == [active EXCEPT !.hovered = FALSE]
             IN  [out EXCEPT !.timers = schedule(out, out.toasts)]
        ELSE active

\* byPosition keyed by the viewport's own position for every record
byPositionDefault(vp, fallback) ==
    [pos \in {fallback} \cap {p \in SILEO_POSITIONS : vp.toasts # << >>} |->
        vp.toasts]

\* byPosition: the map from each position some record resolves to
\* (t.position ?? props.position) to the records of that position, in the
\* order of the list
byPosition(vp, fallback) ==
    LET posOf(t) == IF Get(t, "position") # Undef THEN t.position ELSE fallback
    IN  [pos \in {posOf(vp.toasts[i]) : i \in DOMAIN vp.toasts} |->
            SelectSeq(vp.toasts, LAMBDA t : posOf(t) = pos)]

\* the positions whose section the template renders:
\* v-for over SILEO_POSITIONS, v-if="byPosition[pos]?.length"
renderedPositions(vp, fallback) ==
    {pos \in SILEO_POSITIONS :
        /\ pos \in DOMAIN byPosition(vp, fallback)
        /\ Len(byPosition(vp, fallback)[pos]) > 0}

(* ---------------------------- Store updates ---------------------------- *)

Viewports == {"v1", "v2"}

\* emit(): every subscribed viewport's listener runs with the new list
emit(vps, next) ==
    [v \in Viewports |->
        IF v \in listeners THEN listener(vps[v], next) ELSE vps[v]]

\* store.update(fn), fn(store.toasts) being next; vps holds what the
\* caller did to the viewports before the call
update(next, vps) ==
    /\ toasts' = next
    /\ viewports' = emit(vps, next)

\* the functions other than viewport listeners that may be in
\* store.listeners; "r" is one that calls store.update(() => []) from its
\* notification when the list it is given is not empty
SubscriberNames == {"a", "b", "r"}
reenters(fn, list) == fn = "r" /\ list # << >>
NoObservers ==
    [order |-> << >>,
     observed |-> [fn \in SubscriberNames |-> << >>],
     expected |-> [fn \in SubscriberNames |-> << >>],
     reentered |-> FALSE]
Registered(obs) == {obs.order[k] : k \in DOMAIN obs.order}

\* store.listeners.add(fn) keeping a second entry for a function it has
storeSubscribeTwice(obs, fn) ==
    [obs EXCEPT !.order = Append(@, fn)]

\* store.listeners.add(fn): a Set keeps one entry, in insertion order
storeSubscribe(obs, fn) ==
    IF fn \in Registered(obs) THEN obs
    ELSE [obs EXCEPT !.order = Append(@, fn)]

\* store.listeners.delete(fn)
storeUnsubscribe(obs, fn) ==
    [obs EXCEPT !.order = SelectSeq(@, LAMBDA g : g # fn),
                !.observed[fn] = << >>,
                !.expected[fn] = << >>]

\* store.emit() from the k-th entry on and store.update(fn) with
\* fn(store.toasts) = next, for the subscribers of obs: each is called with
\* this.toasts as it is when its turn comes; expected logs the list every
\* update call produced, observed what the subscriber was called with
RECURSIVE storeEmit(_, _, _)
RECURSIVE storeUpdate(_, _, _)
storeEmit(k, list, obs) ==
    IF k > Len(obs.order) THEN [toasts |-> list, observers |-> obs]
    ELSE LET fn == obs.order[k]
             told == [obs EXCEPT !.observed[fn] = Append(@, list)]
             after == IF reenters(fn, list)
                      THEN storeUpdate(<< >>, told, TRUE)
                      ELSE [toasts |-> list, observers |-> told]
         IN  storeEmit(k + 1, after.toasts, after.observers)

storeUpdate(next, obs, nested) ==
    storeEmit(1, next,
        [obs EXCEPT !.expected = [fn \in SubscriberNames |->
                                      IF fn \in Registered(obs)
                                      THEN Append(@[fn], next) ELSE @[fn]],
                    !.reentered = @ \/ nested])

\* a toast that leaves the rendered list takes the pointer's hover with it,
\* without a mouseleave event
PointerFollows ==
    pointer' = [v \in Viewports |->
                   IF /\ viewports'[v].mounted
                      /\ pointer[v] \in IdsOf(viewports'[v].toasts)
                   THEN pointer[v] ELSE Undef]

\* pointerStart and the transform style of the toast button of the record id
\* in the viewport v; transform << >> is the empty style
NoSwipe == [v |-> Undef, id |-> Undef, pointerStart |-> NullV,
            transform |-> NullV]

\* a SileoToast is keyed by its record's id: its pointer tracking lasts while
\* the viewport renders the record
SwipeFollows ==
    swipe' = IF /\ swipe.id # Undef
                /\ viewports'[swipe.v].mounted
                /\ swipe.id \in IdsOf(viewports'[swipe.v].toasts)
             THEN swipe ELSE NoSwipe

Did(op, id, updates) ==
    lastOp' = [op |-> op, id |-> id, updates |-> updates]

\* no promise reaction job is waiting: jobs run before any other task
NoJobs == \A i \in DOMAIN calls : calls[i].pc \notin {"then", "catch"}

(* ------------------------------ Toast API ------------------------------ *)

\* prev.map((t) => (t.id === id ? { ...t, exiting: true } : t))
markExiting(list, id) ==
    Map(list, LAMBDA t : IF t.id = id THEN Spread(t, [exiting |-> TRUE]) ELSE t)

\* prev.filter((t) => t.id !== id)
removeId(list, id) == SelectSeq(list, LAMBDA t : t.id # id)

\* dismissToast returning early only when the record is missing
dismissReturnsIfAbsent(list, id) == FindIndex(list, id) = 0

\* dismissToast returning early only when the record is exiting
dismissReturnsIfExiting(list, id) ==
    LET i == FindIndex(list, id)
    IN  i # 0 /\ Exiting(list[i])

\* if (!item || item.exiting) return;
dismissReturns(list, id) ==
    LET i == FindIndex(list, id)
    IN  i = 0 \/ Exiting(list[i])

\* dismissToast(id) of store.ts, reached as sileo.dismiss
dismissToast(id, vps, op) ==
    IF dismissReturns(toasts, id)
    THEN /\ toasts' = toasts
         /\ viewports' = vps
         /\ exitQueue' = exitQueue
         /\ Did(op, id, 0)
    ELSE /\ update(markExiting(toasts, id), vps)
         /\ exitQueue' = Append(exitQueue, [id |-> id, rem |-> EXIT_DURATION])
         /\ Did(op, id, 1)

\* the viewport's dismissToast returning only for a missing record
viewportDismissReturnsIfAbsent(list, id) == FindIndex(list, id) = 0

\* dismissToast(id) of the viewport: its own copy of the same code
viewportDismissReturns(list, id) ==
    LET i == FindIndex(list, id)
    IN  i = 0 \/ Exiting(list[i])

viewportDismissToast(id, vps, op) ==
    IF viewportDismissReturns(toasts, id)
    THEN /\ toasts' = toasts
         /\ viewports' = vps
         /\ exitQueue' = exitQueue
         /\ Did(op, id, 0)
    ELSE /\ update(markExiting(toasts, id), vps)
         /\ exitQueue' = Append(exitQueue, [id |-> id, rem |-> EXIT_DURATION])
         /\ Did(op, id, 1)

\* the id createToast resolves: merged.id ?? "sileo-default"
createdId(opts) ==
    LET merged == mergeOptions(opts)
    IN  IF Get(merged, "id") # Undef THEN merged.id ELSE DefaultId

\* createToast appending without dropping the exiting record of the id
createCommitAppend(list, id, item, hasPrev) ==
    IF hasPrev
    THEN Map(list, LAMBDA t : IF t.id = id THEN item ELSE t)
    ELSE Append(list, item)

\* createToast putting the record of a new id in front
createCommitPrepend(list, id, item, hasPrev) ==
    IF hasPrev
    THEN Map(list, LAMBDA t : IF t.id = id THEN item ELSE t)
    ELSE <<item>> \o removeId(list, id)

\* the list createToast commits
createCommit(list, id, item, hasPrev) ==
    IF hasPrev
    THEN Map(list, LAMBDA t : IF t.id = id THEN item ELSE t)
    ELSE Append(removeId(list, id), item)

createToast(opts) ==
    LET live == SelectSeq(toasts, LAMBDA t : ~Exiting(t))
        merged == mergeOptions(opts)
        id == createdId(opts)
        prev == FindIndex(live, id)
        item == buildSileoItem(merged, id,
                               IF prev # 0 THEN live[prev].position ELSE Undef)
    IN  /\ idCounter' = idCounter + 1
        /\ update(createCommit(toasts, id, item, prev # 0), viewports)

\* if (!existing) return;
updateReturns(list, id) == FindIndex(list, id) = 0

\* updateToast(id, options); TRUE in the last place when it updated
updateToast(id, opts) ==
    IF updateReturns(toasts, id)
    THEN UNCHANGED <<toasts, viewports, idCounter>>
    ELSE LET existing == toasts[FindIndex(toasts, id)]
             item == buildSileoItem(mergeOptions(opts), id, existing.position)
         IN  /\ idCounter' = idCounter + 1
             /\ update(Map(toasts, LAMBDA t : IF t.id = id THEN item ELSE t),
                       viewports)

\* sileo.clear ignoring its argument
clearCommitAll(list, pos) == << >>

\* the list sileo.clear commits
clearCommit(list, pos) ==
    IF pos # Undef THEN SelectSeq(list, LAMBDA t : t.position # pos)
    ELSE << >>

(* ------------------------------- Actions ------------------------------- *)

\* sileo.show / success / error / warning / info / action
Show(method, opts) ==
    LET o == IF method = "show" THEN opts
             ELSE Spread(opts, [state |-> method])
    IN  /\ NoJobs
        /\ idCounter < MaxInstances
        /\ createToast(o)
        /\ Did("createToast", createdId(o), 1)
        /\ PointerFollows
        /\ SwipeFollows
        /\ UNCHANGED <<toast, observers, listeners, position, options, exitQueue, calls>>

\* sileo.dismiss(id)
Dismiss(id) ==
    /\ NoJobs
    /\ dismissToast(id, viewports, "dismiss")
    /\ PointerFollows
    /\ SwipeFollows
    /\ UNCHANGED <<toast, observers, listeners, position, options, idCounter, calls>>

\* sileo.clear(position?)
Clear(pos) ==
    /\ NoJobs
    /\ update(clearCommit(toasts, pos), viewports)
    /\ Did("clear", pos, 1)
    /\ PointerFollows
    /\ SwipeFollows
    /\ UNCHANGED <<toast, observers, listeners, position, options, idCounter, exitQueue, calls>>

\* the setTimeout callback of dismissToast; timers of one delay fire in
\* the order they were started
ExitTimer ==
    /\ NoJobs
    /\ exitQueue # << >>
    /\ Head(exitQueue).rem = 0
    /\ update(removeId(toasts, Head(exitQueue).id), viewports)
    /\ exitQueue' = Tail(exitQueue)
    /\ Did("exitTimer", Head(exitQueue).id, 1)
    /\ PointerFollows
    /\ SwipeFollows
    /\ UNCHANGED <<toast, observers, listeners, position, options, idCounter, calls>>

(* --------------------------- Promise adapter --------------------------- *)

Pending == <<"pending">>
Fulfilled(v) == <<"fulfilled", v>>
Rejected(e) == <<"rejected", e>>

\* The promise objects of one invocation: "op" is the operation's promise
\* (the argument, or what the factory returned), "d1" the promise derived
\* by p.then(...) and "d2" the one derived by .catch(...).  The local p
\* holds a reference to one of them.

\* const p = typeof promise === "function" ? promise() : promise
operationPromise(kind) == "op"

\* sileo.promise returning the promise of its then/catch chain
returnedChain(c) == "d2"

\* return p
returned(c) == c.p

\* sileo.promise(promise, opts) up to the return; cfg holds opts: position
\* and, for success, error and (when given) action, the options and whether
\* they are static, a function, or a function that throws
Promise(kind, cfg) ==
    LET o == [state |-> "loading", duration |-> NullV,
              position |-> cfg.position]
    IN  /\ NoJobs
        /\ idCounter < MaxInstances
        /\ Len(calls) < MaxCalls
        /\ createToast(o)
        /\ calls' = Append(calls,
               [id |-> createdId(o), kind |-> kind, cfg |-> cfg,
                pc |-> "pending", p |-> operationPromise(kind),
                op |-> Pending, d1 |-> Pending, d2 |-> Pending,
                applied |-> << >>])
        /\ Did("promise", createdId(o), 1)
        /\ PointerFollows
        /\ SwipeFollows
        /\ UNCHANGED <<toast, observers, listeners, position, options, exitQueue>>

\* the operation settles and its reactions become jobs; room is the number
\* of records the bound leaves for them to build
SettleWithin(i, outcome, room) ==
    /\ NoJobs
    /\ idCounter + room <= MaxInstances
    /\ calls[i].pc = "pending"
    /\ calls' = [calls EXCEPT ![i].op = outcome, ![i].pc = "then"]
    /\ Did("settle", calls[i].id, 0)
    /\ UNCHANGED <<toast, swipe, observers, toasts, listeners, position, options, idCounter,
                   exitQueue, viewports, pointer>>

\* the operation settles, with room for each of the two reactions to build
\* a record
Settle(i, outcome) == SettleWithin(i, outcome, 2)

\* one branch callback of sileo.promise: resolve the options, which may
\* throw, then updateToast(id, { ...opts, state, id }); the promise derived
\* from the callback settles with its outcome
Branch(i, branch, derived, pc) ==
    LET c == calls[i]
        how == c.cfg[branch]
    IN  IF how.kind = "throws"
        THEN /\ calls' = [calls EXCEPT ![i] =
                    [c EXCEPT ![derived] = Rejected("thrown"), !.pc = pc]]
             /\ Did(branch, c.id, 0)
             /\ UNCHANGED <<toasts, viewports, idCounter>>
        ELSE /\ updateToast(c.id,
                    Spread(how.opts, [state |-> branch, id |-> c.id]))
             /\ calls' = [calls EXCEPT ![i] =
                    [c EXCEPT ![derived] = Fulfilled(Undef), !.pc = pc,
                              !.applied = Append(@, branch)]]
             /\ Did(branch, c.id, IF updateReturns(toasts, c.id) THEN 0 ELSE 1)

\* a reaction whose handler is absent passes the settlement on
PassOn(i, from, derived, pc) ==
    /\ calls' = [calls EXCEPT ![i] =
           [calls[i] EXCEPT ![derived] = calls[i][from], !.pc = pc]]
    /\ Did("passOn", calls[i].id, 0)
    /\ UNCHANGED <<toasts, viewports, idCounter>>

\* the reaction of p.then(onFulfilled): settles the derived promise d1
ThenJob(i) ==
    /\ calls[i].pc = "then"
    /\ IF calls[i][calls[i].p][1] = "fulfilled"
       THEN Branch(i, IF Has(calls[i].cfg, "action") THEN "action"
                      ELSE "success", "d1", "catch")
       ELSE PassOn(i, calls[i].p, "d1", "catch")
    /\ PointerFollows
    /\ SwipeFollows
    /\ UNCHANGED <<toast, observers, listeners, position, options, exitQueue>>

\* the reaction of .catch(onRejected) on d1: settles d2
CatchJob(i) ==
    /\ calls[i].pc = "catch"
    /\ IF calls[i].d1[1] = "rejected"
       THEN Branch(i, "error", "d2", "done")
       ELSE PassOn(i, "d1", "d2", "done")
    /\ PointerFollows
    /\ SwipeFollows
    /\ UNCHANGED <<toast, observers, listeners, position, options, exitQueue>>

(* ------------------------ Toast presentation --------------------------- *)
\* SileoToast.vue.  A component is a record: its props, the refs and the
\* plain variables of its setup.  A timer is an entry [name, rem] of the
\* sequence timers, kept in the order in which the timers fire.  pending
\* and headerLayer.prev are << >> for null and <<x>> for the value x.

HEIGHT == 40
minExpanded == (HEIGHT * 225) \div 100
SWAP_COLLAPSE_MS == 200
HEADER_EXIT_MS == 150
SWIPE_DISMISS == 30
SWIPE_MAX == 20

NoToast == [mounted |-> FALSE]

\* resolvedTitle and makeView
makeView(props) ==
    [title |-> IF props.title # Undef THEN props.title ELSE props.state,
     description |-> props.description,
     state |-> props.state,
     button |-> props.button]

\* Boolean(view.description) || Boolean(view.button): "" is falsy
hasDesc(c) == c.view.description \notin {Undef, ""} \/ c.view.button # Undef
isLoading(c) == c.view.state = "loading"

\* open without the loading clause
openWhileLoading(c) == hasDesc(c) /\ c.isExpanded

open(c) == hasDesc(c) /\ c.isExpanded /\ ~isLoading(c)

allowExpand(c) == IF isLoading(c) THEN FALSE ELSE c.props.canExpand

\* `${state}-${title}`: a state name holds no hyphen, so the string
\* determines the pair
headerKey(view) == <<view.state, view.title>>

rawExpanded(c) ==
    IF hasDesc(c) THEN Max(minExpanded, HEIGHT + c.contentHeight)
    ELSE minExpanded

\* the expanded height following the content while collapsed too
expandedFollowsContent(c) == rawExpanded(c)

expanded(c) == IF open(c) THEN rawExpanded(c) ELSE c.frozenExpanded

\* window.setTimeout(cb, delay): the entry goes behind every timer that is
\* due no later
setTimer(timers, name, delay) ==
    LET before == SelectSeq(timers, LAMBDA t : t.rem <= delay)
        after == SelectSeq(timers, LAMBDA t : t.rem > delay)
    IN  before \o <<[name |-> name, rem |-> delay]>> \o after

\* clearTimeout of the handle kept for name
clearTimer(timers, name) == SelectSeq(timers, LAMBDA t : t.name # name)
TimerNames(c) == {c.timers[i].name : i \in DOMAIN c.timers}

\* the header watcher keeping an older prev layer when the key changes again
setViewKeepsPrev(c, v) ==
    LET layer == c.headerLayer
    IN  [c EXCEPT !.view = v,
                  !.headerLayer =
                      IF layer.current.key = headerKey(v)
                      THEN [layer EXCEPT !.current = [key |-> headerKey(v),
                                                      view |-> v]]
                      ELSE [prev |-> IF layer.prev # NullV THEN layer.prev
                                     ELSE <<layer.current>>,
                            current |-> [key |-> headerKey(v), view |-> v]]]

\* view.value = v, with the flush: "sync" watcher of [headerKey, view]
setView(c, v) ==
    LET layer == c.headerLayer
    IN  [c EXCEPT !.view = v,
                  !.headerLayer =
                      IF layer.current.key = headerKey(v)
                      THEN [layer EXCEPT !.current = [key |-> headerKey(v),
                                                      view |-> v]]
                      ELSE [prev |-> <<layer.current>>,
                            current |-> [key |-> headerKey(v), view |-> v]]]

\* the callback of the watcher of [refreshKey, open]; the viewport always
\* passes a refreshKey
refresh(c) ==
    IF c.lastRefreshKey = c.props.refreshKey THEN c
    ELSE LET rk == c.props.refreshKey
             c1 == [c EXCEPT !.lastRefreshKey = rk,
                             !.timers = clearTimer(@, "swap")]
         IN  IF open(c1)
             THEN [c1 EXCEPT
                      !.pending = <<[key |-> rk, payload |-> makeView(c.props)]>>,
                      !.isExpanded = FALSE,
                      !.timers = setTimer(@, "swap", SWAP_COLLAPSE_MS)]
             ELSE setView([c1 EXCEPT !.pending = NullV, !.applied = rk],
                          makeView(c.props))

\* the callback of the watcher of [hasDesc, exiting, allowExpand,
\* autoExpandDelayMs, autoCollapseDelayMs, applied]
autopilot(c) ==
    IF ~hasDesc(c) THEN c
    ELSE LET cleared == [c EXCEPT !.timers =
                            clearTimer(clearTimer(@, "autoExpand"),
                                       "autoCollapse")]
         IN  IF c.props.exiting \/ ~allowExpand(c)
             THEN [cleared EXCEPT !.isExpanded = FALSE]
             ELSE IF c.props.autoExpandDelayMs = NullV
                     /\ c.props.autoCollapseDelayMs = NullV
             THEN cleared
             ELSE LET expandDelay ==
                          IF c.props.autoExpandDelayMs = NullV THEN 0
                          ELSE c.props.autoExpandDelayMs[1]
                      collapseDelay ==
                          IF c.props.autoCollapseDelayMs = NullV THEN 0
                          ELSE c.props.autoCollapseDelayMs[1]
                      e == IF expandDelay > 0
                           THEN [cleared EXCEPT !.timers =
                                    setTimer(@, "autoExpand", expandDelay)]
                           ELSE [cleared EXCEPT !.isExpanded = TRUE]
                  IN  IF collapseDelay > 0
                      THEN [e EXCEPT !.timers =
                               setTimer(@, "autoCollapse", collapseDelay)]
                      ELSE e

\* the sources of the autopilot watcher
autopilotSources(c) ==
    <<hasDesc(c), c.props.exiting, allowExpand(c), c.props.autoExpandDelayMs,
      c.props.autoCollapseDelayMs, c.applied>>

\* the autopilot watcher in a flush: its callback runs when a source differs
\* from what the watcher saw last
autopilotWatch(seen, c) ==
    IF autopilotSources(c) # autopilotSources(seen) THEN autopilot(c) ELSE c

\* what follows the callbacks in the flush after a task that began in the
\* state seen: setupContentObserver when hasDesc changed (h is what the
\* content measures), the watcher of [open, rawExpanded], and the watcher
\* of headerLayer.prev, which restarts the header exit timer for a new prev
settle(seen, c, h) ==
    LET m == IF hasDesc(c) # hasDesc(seen)
             THEN [c EXCEPT !.contentHeight = IF hasDesc(c) THEN h ELSE 0]
             ELSE c
        f == [m EXCEPT !.frozenExpanded =
                 IF open(m) THEN rawExpanded(m) ELSE @]
    IN  IF f.headerLayer.prev # seen.headerLayer.prev
           /\ f.headerLayer.prev # NullV
        THEN [f EXCEPT !.timers =
                 setTimer(clearTimer(@, "headerExit"), "headerExit",
                          HEADER_EXIT_MS)]
        ELSE f

\* the flush after a task that set no props: the autopilot watcher, then
\* the rest; the refresh watcher returns at once for an unchanged key
flush(seen, c, h) == settle(seen, autopilotWatch(seen, c), h)

\* the flush after the viewport passed new props.  The props are set in
\* template order: exiting and the delays before refresh-key, can-expand
\* after it; the watchers run in the order in which they were triggered.
propsFlush(seen, next, h) ==
    LET c == [seen EXCEPT !.props = next]
        autopilotFirst ==
            \/ next.exiting # seen.props.exiting
            \/ next.autoExpandDelayMs # seen.props.autoExpandDelayMs
            \/ next.autoCollapseDelayMs # seen.props.autoCollapseDelayMs
        a == IF autopilotFirst THEN autopilotWatch(seen, c) ELSE c
        r == refresh(a)
    IN  settle(seen, autopilotWatch(IF autopilotFirst THEN c ELSE seen, r), h)

\* setup with its immediate watchers, and the first measurement of onMounted
setupToast(props, h) ==
    LET v == makeView(props)
        c == autopilot(
                 [mounted |-> TRUE, props |-> props, view |-> v,
                  applied |-> props.refreshKey,
                  lastRefreshKey |-> props.refreshKey,
                  isExpanded |-> FALSE, pending |-> NullV, timers |-> << >>,
                  headerLayer |-> [current |-> [key |-> headerKey(v),
                                                view |-> v],
                                   prev |-> NullV],
                  contentHeight |-> 0, frozenExpanded |-> minExpanded])
        m == [c EXCEPT !.contentHeight = IF hasDesc(c) THEN h ELSE 0]
    IN  [m EXCEPT !.frozenExpanded = IF open(m) THEN rawExpanded(m) ELSE @]

\* handleEnter, handleLeave
handleEnter(c) == IF hasDesc(c) THEN [c EXCEPT !.isExpanded = TRUE] ELSE c
handleLeave(c) == [c EXCEPT !.isExpanded = FALSE]

\* the swap of the pending payload into view
applyPending(c) ==
    [setView(c, c.pending[1].payload) EXCEPT !.applied = c.pending[1].key,
                                             !.pending = NullV]

\* handleTransitionEnd(e) for e.propertyName = property
handleTransitionEnd(c, property) ==
    IF property \notin {"height", "transform"} THEN c
    ELSE IF open(c) THEN c
    ELSE IF c.pending = NullV THEN c
    ELSE applyPending([c EXCEPT !.timers = clearTimer(@, "swap")])

\* the callback of the timer called name
timerCallback(c, name) ==
    CASE name = "autoExpand" -> [c EXCEPT !.isExpanded = TRUE]
      [] name = "autoCollapse" -> [c EXCEPT !.isExpanded = FALSE]
      [] name = "swap" -> IF c.pending = NullV THEN c ELSE applyPending(c)
      [] name = "headerExit" -> [c EXCEPT !.headerLayer.prev = NullV]

Abs(n) == IF n < 0 THEN 0 - n ELSE n

\* onPointerDown arming on the action button too
onPointerDownAnywhere(s, exiting, onButton, y) ==
    IF exiting THEN s ELSE [s EXCEPT !.pointerStart = Num(y)]

\* onPointerDown(e) for e.clientY = y; onButton: the target is inside
\* [data-sileo-button]
onPointerDown(s, exiting, onButton, y) ==
    IF exiting THEN s
    ELSE IF onButton THEN s
    ELSE [s EXCEPT !.pointerStart = Num(y)]

\* onPointerMove(e)
onPointerMove(s, y) ==
    IF s.pointerStart = NullV THEN s
    ELSE LET dy == y - s.pointerStart[1]
             sign == IF dy > 0 THEN 1 ELSE 0 - 1
         IN  [s EXCEPT !.transform = Num(Min(Abs(dy), SWIPE_MAX) * sign)]

\* onPointerUp(e) emits dismiss
emitsDismiss(s, y) ==
    s.pointerStart # NullV /\ Abs(y - s.pointerStart[1]) > SWIPE_DISMISS

\* onPointerUp(e): the tracking and the style after it
onPointerUp(s, y) ==
    IF s.pointerStart = NullV THEN s
    ELSE [s EXCEPT !.pointerStart = NullV, !.transform = NullV]

(* ----------------------------- Store bus ------------------------------- *)

Subscribe(fn) ==
    /\ observers' = storeSubscribe(observers, fn)
    /\ Did("subscribe", fn, 0)
    /\ UNCHANGED <<toasts, listeners, position, options, idCounter, exitQueue,
                   viewports, pointer, calls, toast, swipe>>

Unsubscribe(fn) ==
    /\ fn \in Registered(observers)
    /\ observers' = storeUnsubscribe(observers, fn)
    /\ Did("unsubscribe", fn, 0)
    /\ UNCHANGED <<toasts, listeners, position, options, idCounter, exitQueue,
                   viewports, pointer, calls, toast, swipe>>

\* the lists a caller's transform makes of the registry: one more record,
\* or none
Appended(list) == Append(list, [id |-> DefaultId, instanceId |-> generateId])

\* a call of store.update(fn) from outside a notification
StoreUpdate(transform) ==
    /\ listeners = {}
    /\ \A fn \in SubscriberNames :
           Len(observers.expected[fn]) + 2 <= MaxObserved
    /\ IF transform = "append"
       THEN /\ idCounter < MaxInstances
            /\ idCounter' = idCounter + 1
       ELSE UNCHANGED idCounter
    /\ LET r == storeUpdate(IF transform = "append" THEN Appended(toasts)
                            ELSE << >>, observers, FALSE)
       IN  /\ toasts' = r.toasts
           /\ observers' = r.observers
    /\ Did("update", transform, 1)
    /\ UNCHANGED <<listeners, position, options, exitQueue, viewports,
                   pointer, calls, toast, swipe>>

(* --------------------------- Viewport actions -------------------------- *)

NewViewport ==
    [mounted |-> FALSE, toasts |-> << >>, activeId |-> Undef,
     hovered |-> FALSE, timers |-> NoOpts]

\* component setup, then onMounted: syncConfig and subscribe
Mount(v, props) ==
    /\ NoJobs
    /\ ~viewports[v].mounted
    /\ viewports' = [viewports EXCEPT ![v] =
           [NewViewport EXCEPT !.mounted = TRUE, !.toasts = toasts]]
    /\ position' = props.position
    /\ options' = props.options
    /\ listeners' = listeners \cup {v}
    /\ Did("mount", v, 0)
    /\ UNCHANGED <<toast, swipe, observers, toasts, idCounter, exitQueue, pointer, calls>>

\* onUnmounted: unsubscribe and clearAllTimers; the component is gone
Unmount(v) ==
    /\ NoJobs
    /\ viewports[v].mounted
    /\ listeners' = listeners \ {v}
    /\ viewports' = [viewports EXCEPT ![v] = NewViewport]
    /\ pointer' = [pointer EXCEPT ![v] = Undef]
    /\ SwipeFollows
    /\ Did("unmount", v, 0)
    /\ UNCHANGED <<toast, observers, toasts, position, options, idCounter, exitQueue,
                   calls>>

\* a dismissal timer of schedule fires: () => dismissToast(item.id); its
\* handle stays in the map
Timeout(v, key) ==
    /\ NoJobs
    /\ key \in DOMAIN viewports[v].timers
    /\ viewports[v].timers[key] = 0
    /\ viewportDismissToast(key[1],
           [viewports EXCEPT ![v].timers[key] = Fired], "timeout")
    /\ PointerFollows
    /\ SwipeFollows
    /\ UNCHANGED <<toast, observers, listeners, position, options, idCounter, calls>>

\* the pointer comes over a rendered toast: @mouseenter
Enter(v, id) ==
    /\ NoJobs
    /\ viewports[v].mounted
    /\ id \in IdsOf(viewports[v].toasts)
    /\ \A w \in Viewports : pointer[w] = Undef
    /\ viewports' = [viewports EXCEPT ![v] = enter(viewports[v], id)]
    /\ pointer' = [pointer EXCEPT ![v] = id]
    /\ Did("enter", id, 0)
    /\ UNCHANGED <<toast, swipe, observers, toasts, listeners, position, options, idCounter,
                   exitQueue, calls>>

\* the pointer leaves the toast it is over: @mouseleave
Leave(v) ==
    /\ NoJobs
    /\ pointer[v] # Undef
    /\ viewports' = [viewports EXCEPT ![v] = leave(viewports[v])]
    /\ pointer' = [pointer EXCEPT ![v] = Undef]
    /\ Did("leave", pointer[v], 0)
    /\ UNCHANGED <<toast, swipe, observers, toasts, listeners, position, options, idCounter,
                   exitQueue, calls>>

\* a rendered toast asks to be dismissed after a swipe: @dismiss
Swipe(v, id) ==
    /\ NoJobs
    /\ viewports[v].mounted
    /\ id \in IdsOf(viewports[v].toasts)
    /\ viewportDismissToast(id, viewports, "swipe")
    /\ PointerFollows
    /\ SwipeFollows
    /\ UNCHANGED <<toast, observers, listeners, position, options, idCounter, calls>>

(* -------------------------------- Time --------------------------------- *)

\* the milliseconds left of every pending timer
Remaining ==
    {exitQueue[i].rem : i \in DOMAIN exitQueue}
    \cup UNION {{viewports[v].timers[k] : k \in DOMAIN viewports[v].timers}
                : v \in Viewports}

Pending0(S) == {r \in S : r >= 0}

SetMin(S) == CHOOSE m \in S : \A r \in S : m <= r

\* time passes, by the quantum q or up to the next timer, whichever comes
\* first; a timer that is due fires before time moves on
Tick(q) ==
    /\ NoJobs
    /\ Pending0(Remaining) # {}
    /\ SetMin(Pending0(Remaining)) > 0
    /\ LET d == Min(q, SetMin(Pending0(Remaining)))
       IN  /\ exitQueue' = Map(exitQueue,
                               LAMBDA t : [t EXCEPT !.rem = @ - d])
           /\ viewports' = [v \in Viewports |->
                  [viewports[v] EXCEPT !.timers =
                      [k \in DOMAIN viewports[v].timers |->
                          IF viewports[v].timers[k] = Fired THEN Fired
                          ELSE viewports[v].timers[k] - d]]]
           /\ Did("tick", Undef, 0)
    /\ UNCHANGED <<toast, swipe, observers, toasts, listeners, position, options, idCounter,
                   pointer, calls>>

(* ---------------------- Toast presentation actions --------------------- *)

StoreIdle ==
    UNCHANGED <<toasts, listeners, position, options, idCounter, exitQueue,
                viewports, pointer, calls, observers>>

\* the viewport renders a SileoToast: setup, then onMounted
Setup(props, h) ==
    /\ ~toast.mounted
    /\ toast' = setupToast(props, h)
    /\ Did("setup", props.id, 0)
    /\ UNCHANGED swipe
    /\ StoreIdle

\* the viewport renders the component again with the props next
Render(op, next, h) ==
    /\ toast.mounted
    /\ next # toast.props
    /\ toast' = propsFlush(toast, next, h)
    /\ Did(op, next.id, 0)
    /\ UNCHANGED swipe
    /\ StoreIdle

\* the same record, with its exiting flag or with another toast active
Rerender(exiting, canExpand) ==
    /\ toast.mounted
    /\ Render("rerender",
              [toast.props EXCEPT !.exiting = exiting, !.canExpand = canExpand],
              toast.contentHeight)

\* a new instance of the record: the next refresh key, with any content
Refresh(content, delays, exiting, canExpand, h) ==
    /\ toast.mounted
    /\ toast.props.refreshKey < MaxRefresh
    /\ Render("refresh",
              [id |-> toast.props.id,
               refreshKey |-> toast.props.refreshKey + 1,
               exiting |-> exiting, canExpand |-> canExpand]
                  @@ content @@ delays,
              h)

\* mouseenter and mouseleave on the toast button
PointerEnter ==
    /\ toast.mounted
    /\ toast' = flush(toast, handleEnter(toast), toast.contentHeight)
    /\ Did("mouseenter", toast.props.id, 0)
    /\ UNCHANGED swipe
    /\ StoreIdle

PointerLeave ==
    /\ toast.mounted
    /\ toast' = flush(toast, handleLeave(toast), toast.contentHeight)
    /\ Did("mouseleave", toast.props.id, 0)
    /\ UNCHANGED swipe
    /\ StoreIdle

\* a transitionend event of the property reaches the toast button
TransitionEnd(property, h) ==
    /\ toast.mounted
    /\ toast' = flush(toast, handleTransitionEnd(toast, property), h)
    /\ Did("transitionend", toast.props.id, 0)
    /\ UNCHANGED swipe
    /\ StoreIdle

\* the timer that is due first fires
ToastTimer(h) ==
    /\ toast.mounted
    /\ toast.timers # << >>
    /\ Head(toast.timers).rem = 0
    /\ toast' = flush(toast,
                      timerCallback([toast EXCEPT !.timers = Tail(@)],
                                    Head(toast.timers).name),
                      h)
    /\ Did(Head(toast.timers).name, toast.props.id, 0)
    /\ UNCHANGED swipe
    /\ StoreIdle

\* the ResizeObserver of the content reports another height
Measure(h) ==
    /\ toast.mounted
    /\ hasDesc(toast)
    /\ h # toast.contentHeight
    /\ toast' = settle(toast, [toast EXCEPT !.contentHeight = h], h)
    /\ Did("measure", toast.props.id, 0)
    /\ UNCHANGED swipe
    /\ StoreIdle

\* onUnmounted clears the four timers
RemoveToast ==
    /\ toast.mounted
    /\ toast' = NoToast
    /\ Did("remove", toast.props.id, 0)
    /\ UNCHANGED swipe
    /\ StoreIdle

\* time passes for the component, by q or up to its next timer
ToastTick(q) ==
    /\ toast.mounted
    /\ toast.timers # << >>
    /\ Head(toast.timers).rem > 0
    /\ LET d == Min(q, Head(toast.timers).rem)
       IN  toast' = [toast EXCEPT !.timers =
                        [i \in DOMAIN @ |-> [@[i] EXCEPT !.rem = @ - d]]]
    /\ Did("tick", toast.props.id, 0)
    /\ UNCHANGED swipe
    /\ StoreIdle

(* ------------------------------ Swipe actions --------------------------- *)

\* the pointer state of the SileoToast of the record id in the viewport v
tracking(v, id) ==
    IF swipe.v = v /\ swipe.id = id THEN swipe
    ELSE [NoSwipe EXCEPT !.v = v, !.id = id]

\* a component in its initial pointer state is not told apart from others
tracked(s) == IF s.pointerStart = NullV /\ s.transform = NullV THEN NoSwipe ELSE s

\* a pointer event reaches the toast button of a rendered record; one
\* component at a time is followed
Targets(v, id) ==
    /\ NoJobs
    /\ viewports[v].mounted
    /\ id \in IdsOf(viewports[v].toasts)

\* :exiting="item.exiting"
exitingProp(v, id) ==
    Exiting(viewports[v].toasts[FindIndex(viewports[v].toasts, id)])

PointerDown(v, id, onButton, y) ==
    /\ Targets(v, id)
    /\ swipe.id \in {Undef, id}
    /\ swipe' = tracked(onPointerDown(tracking(v, id),
                                      exitingProp(v, id),
                                      onButton, y))
    /\ Did("pointerdown", id, 0)
    /\ UNCHANGED <<toast, observers, toasts, listeners, position, options,
                   idCounter, exitQueue, viewports, pointer, calls>>

PointerMove(v, id, y) ==
    /\ Targets(v, id)
    /\ swipe.id \in {Undef, id}
    /\ swipe' = tracked(onPointerMove(tracking(v, id), y))
    /\ Did("pointermove", id, 0)
    /\ UNCHANGED <<toast, observers, toasts, listeners, position, options,
                   idCounter, exitQueue, viewports, pointer, calls>>

\* pointerup; an emitted dismiss runs the viewport's dismissToast
PointerUp(v, id, y) ==
    /\ Targets(v, id)
    /\ swipe.id \in {Undef, id}
    /\ swipe' = tracked(onPointerUp(tracking(v, id), y))
    /\ IF emitsDismiss(tracking(v, id), y)
       THEN /\ viewportDismissToast(id, viewports, "swipe")
            /\ PointerFollows
       ELSE /\ Did("pointerup", id, 0)
            /\ UNCHANGED <<toasts, exitQueue, viewports, pointer>>
    /\ UNCHANGED <<toast, observers, listeners, position, options, idCounter,
                   calls>>

(* ---------------------------- Specification ---------------------------- *)

Init ==
    /\ toasts = << >>
    /\ listeners = {}
    /\ position = "top-right"
    /\ options = NoOpts
    /\ idCounter = 0
    /\ exitQueue = << >>
    /\ viewports = [v \in Viewports |-> NewViewport]
    /\ pointer = [v \in Viewports |-> Undef]
    /\ calls = << >>
    /\ observers = NoObservers
    /\ toast = NoToast
    /\ swipe = NoSwipe
    /\ lastOp = [op |-> "init", id |-> Undef, updates |-> 0]

\* an optional key: absent, or present with one of the values
Opt(k, values) == {NoOpts} \cup {k :> x : x \in values}

Ids == {DefaultId, "x"}
Outcomes == {Fulfilled("data"), Rejected("reason")}
Static(o) == [kind |-> "static", opts |-> o]

\* The store on its own: the toast API, the promise adapter and the
\* exit-removal timers, with no viewport mounted
Methods == {"show"}
ToastOptions ==
    {a @@ b : a \in Opt("id", {"x"}), b \in Opt("position", {"bottom-left"})}
PromiseOptions ==
    {[position |-> Undef, success |-> Static(NoOpts),
      error |-> Static(NoOpts)]}

Next ==
    \/ \E m \in Methods, o \in ToastOptions : Show(m, o)
    \/ \E id \in Ids : Dismiss(id)
    \/ \E pos \in {Undef, "bottom-left"} : Clear(pos)
    \/ ExitTimer
    \/ \E cfg \in PromiseOptions : Promise("promise", cfg)
    \/ \E i \in DOMAIN calls, out \in Outcomes : Settle(i, out)
    \/ \E i \in DOMAIN calls : ThenJob(i)
    \/ \E i \in DOMAIN calls : CatchJob(i)
    \/ Tick(TickMs)

Spec == Init /\ [][Next]_vars

\* The store with one viewport mounted on it
ViewportToastOptions ==
    {a @@ c : a \in Opt("id", {"x"}), c \in Opt("duration", {NullV})}
MainViewports == {"v1"}
ViewportProps == {[position |-> "top-right", options |-> NoOpts]}

NextViewport ==
    \/ \E o \in ViewportToastOptions : Show("show", o)
    \/ \E id \in Ids : Dismiss(id)
    \/ Clear(Undef)
    \/ ExitTimer
    \/ \E v \in MainViewports, props \in ViewportProps : Mount(v, props)
    \/ \E v \in MainViewports : Unmount(v)
    \/ \E v \in MainViewports :
           \E key \in DOMAIN viewports[v].timers : Timeout(v, key)
    \/ \E v \in MainViewports, id \in Ids : Enter(v, id)
    \/ \E v \in MainViewports : Leave(v)
    \/ \E v \in MainViewports, id \in Ids : Swipe(v, id)
    \/ Tick(ViewportTickMs)

SpecViewport == Init /\ [][NextViewport]_vars

\* The promise adapter with callbacks that may throw
Callbacks(kinds) == {[kind |-> k, opts |-> NoOpts] : k \in kinds}
PromiseCallbackOptions ==
    {[position |-> Undef, success |-> s, error |-> e] @@ a :
        s \in Callbacks({"static", "function", "throws"}),
        e \in Callbacks({"static", "throws"}),
        a \in Opt("action", Callbacks({"function", "throws"}))}

NextPromise ==
    \/ \E kind \in {"promise", "factory"}, cfg \in PromiseCallbackOptions :
           Promise(kind, cfg)
    \/ \E i \in DOMAIN calls, out \in Outcomes : Settle(i, out)
    \/ \E i \in DOMAIN calls : ThenJob(i)
    \/ \E i \in DOMAIN calls : CatchJob(i)
    \/ \E m \in {"show", "info"} : Show(m, NoOpts)
    \/ Clear(Undef)

SpecPromise == Init /\ [][NextPromise]_vars

(* ------------------------------ Properties ----------------------------- *)

Present(list, id) == \E i \in DOMAIN list : list[i].id = id
ExitingIn(list, id) ==
    \E i \in DOMAIN list : list[i].id = id /\ Exiting(list[i])
LiveIn(list, id) ==
    \E i \in DOMAIN list : list[i].id = id /\ ~Exiting(list[i])
LiveCount(list, id) ==
    Cardinality({i \in DOMAIN list : list[i].id = id /\ ~Exiting(list[i])})
RecordOf(list, id) == list[FindIndex(list, id)]

\* C1: the registry never holds two non-exiting records with one id, and
\* right after a createToast call (show, success, ..., or the loading toast
\* of promise) it holds exactly one non-exiting record with the id created.
C1_OneLivePerId ==
    /\ \A id \in Ids : LiveCount(toasts, id) <= 1
    /\ lastOp.op \in {"createToast", "promise"}
           => LiveCount(toasts, lastOp.id) = 1

\* three createToast calls in a row have hit one id
C1_Witness ==
    /\ lastOp.op = "createToast"
    /\ idCounter = 3
    /\ calls = << >>
    /\ exitQueue = << >>
    /\ Len(toasts) = 1
    /\ toasts[1].id = lastOp.id
    /\ toasts[1].instanceId = 3

\* C2 as claimed: a record whose duration is null never has a dismissal
\* timer in a viewport, and no timeout ever marks such a record exiting.
C2_PersistentHasNoTimer ==
    /\ \A v \in Viewports : \A i \in DOMAIN toasts :
           (Has(toasts[i], "duration") /\ toasts[i].duration = NullV)
               => timeoutKey(toasts[i]) \notin DOMAIN viewports[v].timers
    /\ (lastOp.op = "timeout" /\ lastOp.updates = 1)
           => LET t == RecordOf(toasts, lastOp.id)
              IN  ~(Has(t, "duration") /\ t.duration = NullV)

\* C3 as claimed: a record that is exiting is, after any step that is not a
\* createToast call or a clear, either still exiting or gone.
C3_ExitingIsMonotonic ==
    [][\A id \in Ids :
          (ExitingIn(toasts, id)
           /\ lastOp'.op \notin {"createToast", "promise", "clear"})
              => (~Present(toasts', id) \/ ExitingIn(toasts', id))]_vars

\* C4 as claimed: whatever leaves the registry in a step other than clear
\* was exiting when it left.
C4_RemovedOnlyWhileExiting ==
    [][lastOp'.op # "clear"
          => \A id \in Ids :
                 (Present(toasts, id) /\ ~Present(toasts', id))
                     => ExitingIn(toasts, id)]_vars

\* the time since the record with this id was marked exiting: the mark
\* started the newest exit-removal timer for the id
ExitingFor(id) ==
    LET mine == {i \in DOMAIN exitQueue : exitQueue[i].id = id}
        newest == CHOOSE i \in mine : \A j \in mine : j <= i
    IN  EXIT_DURATION - exitQueue[newest].rem

\* C5 as claimed: dismiss(id) on a non-exiting record marks it exiting in
\* one store update, and an exiting record that leaves the registry in a
\* step other than clear has been exiting for exactly EXIT_DURATION.
C5_RemovedAfterExitDuration ==
    [][/\ (lastOp'.op = "dismiss" /\ LiveIn(toasts, lastOp'.id))
              => (ExitingIn(toasts', lastOp'.id) /\ lastOp'.updates = 1)
       /\ \A id \in Ids :
              (ExitingIn(toasts, id) /\ ~Present(toasts', id)
               /\ lastOp'.op # "clear")
                  => ExitingFor(id) = EXIT_DURATION]_vars

\* C6: dismiss(id) on a record that is already exiting makes no store
\* update, starts no timer and leaves registry and viewports as they were.
C6_DismissIsIdempotent ==
    [][(lastOp'.op = "dismiss" /\ ExitingIn(toasts, lastOp'.id))
          => /\ toasts' = toasts
             /\ exitQueue' = exitQueue
             /\ viewports' = viewports
             /\ lastOp'.updates = 0]_vars

\* a dismiss has been called on an exiting record
C6_Witness ==
    /\ lastOp.op = "dismiss"
    /\ lastOp.updates = 0
    /\ ExitingIn(toasts, lastOp.id)

\* C7 as claimed: an invocation whose reactions have run has called
\* updateToast exactly once, with success (or action when configured) after
\* a fulfilment and with error after a rejection.
C7_ExactlyOneBranch ==
    \A i \in DOMAIN calls :
        calls[i].pc = "done"
            => calls[i].applied =
                   IF calls[i].op[1] = "fulfilled"
                   THEN <<IF Has(calls[i].cfg, "action") THEN "action"
                          ELSE "success">>
                   ELSE <<"error">>

\* C8: once the operation has settled, the promise handed to the caller is
\* settled the same way, with the operation's value or reason; and an
\* error update that found the record left it in state error.
C8_PromiseIsTransparent ==
    /\ \A i \in DOMAIN calls :
           calls[i].pc # "pending"
               => /\ calls[i][returned(calls[i])] \in Outcomes
                  /\ calls[i][returned(calls[i])] = calls[i].op
    /\ (lastOp.op = "error" /\ lastOp.updates = 1)
           => RecordOf(toasts, lastOp.id).state = "error"

\* a factory's rejection reached the caller and the toast shows the error
C8_Witness ==
    \E i \in DOMAIN calls :
        /\ calls[i].pc = "done"
        /\ calls[i].kind = "factory"
        /\ calls[i][returned(calls[i])] = Rejected("reason")
        /\ lastOp = [op |-> "error", id |-> calls[i].id, updates |-> 1]
        /\ RecordOf(toasts, calls[i].id).state = "error"

\* C9: dismiss(id) and updateToast(id, options) on an id with no record
\* leave the registry, the timers, the viewports and the id counter as they
\* were and make no store update.
C9_UnknownIdIsNoOp ==
    [][(/\ lastOp'.op \in {"dismiss", "success", "action", "error"}
        /\ ~Present(toasts, lastOp'.id))
          => /\ toasts' = toasts
             /\ exitQueue' = exitQueue
             /\ viewports' = viewports
             /\ idCounter' = idCounter
             /\ lastOp'.updates = 0]_vars

\* a promise settled after its toast had been cleared away
C9_Witness ==
    /\ lastOp.op \in {"success", "error"}
    /\ lastOp.updates = 0
    /\ ~Present(toasts, lastOp.id)
    /\ \E i \in DOMAIN calls : calls[i].applied # << >>

\* the records clear(pos) has to keep, by index
Kept(list, pos) == {i \in DOMAIN list : list[i].position # pos}

\* C10: clear() leaves the registry empty; clear(pos) leaves exactly the
\* records whose position is not pos, each unchanged, in their old order.
C10_Clear ==
    [][lastOp'.op = "clear"
          => IF lastOp'.id = Undef
             THEN toasts' = << >>
             ELSE LET keep == Kept(toasts, lastOp'.id)
                  IN  /\ Len(toasts') = Cardinality(keep)
                      /\ \A i \in keep :
                             toasts'[Cardinality({j \in keep : j <= i})]
                                 = toasts[i]]_vars

\* clear("bottom-left") has run and left the older, top-right record
C10_Witness ==
    /\ lastOp = [op |-> "clear", id |-> "bottom-left", updates |-> 1]
    /\ idCounter = 2
    /\ exitQueue = << >>
    /\ Len(toasts) = 1
    /\ toasts[1].instanceId = 1
    /\ toasts[1].position = "top-right"

(* ---------------------- Specification SpecBuild ------------------------ *)
\* the builder alone: one id, every kind of duration and autopilot directive

BuildDurations ==
    {NullV, Num(0), Num(0 - 100), Num(1000), Num(3000), Num(DEFAULT_DURATION),
     Num(10000)}
BuildAutopilots ==
    {[bool |-> TRUE], [bool |-> FALSE], NoOpts,
     [expand |-> 0 - 50, collapse |-> 20000],
     [expand |-> 7000, collapse |-> 500],
     [expand |-> 200]}
BuildOptions ==
    {a @@ b : a \in Opt("duration", BuildDurations),
              b \in Opt("autopilot", BuildAutopilots)}

NextBuild ==
    \/ \E o \in BuildOptions : Show("show", o)
    \/ Dismiss(DefaultId)
    \/ Clear(Undef)
    \/ ExitTimer
    \/ Tick(TickMs)

SpecBuild == Init /\ [][NextBuild]_vars

\* the autopilot directive of a record, as the claims name it
AutopilotOff(t) == Has(t, "autopilot") /\ t.autopilot = [bool |-> FALSE]
NoOverride(t) == ~Has(t, "autopilot") \/ t.autopilot = [bool |-> TRUE]
NoCollapseOverride(t) ==
    ~Has(t, "autopilot") \/ ~Has(t.autopilot, "collapse")
InRange(delay, duration) ==
    delay # NullV /\ 0 <= delay[1] /\ delay[1] <= duration

(* --------------------- Specification SpecPosition ---------------------- *)
\* one viewport whose props may carry default options with a position,
\* calls that name a position or not, and one promise

PositionProps ==
    {[position |-> "top-right", options |-> NoOpts],
     [position |-> "bottom-center", options |-> [position |-> "bottom-left"]]}
PositionToastOptions ==
    {a @@ b : a \in Opt("id", {"x"}), b \in Opt("position", {"top-left"})}
PositionPromiseOptions ==
    {[position |-> pos, success |-> Static(NoOpts), error |-> Static(NoOpts)] :
        pos \in {Undef, "top-left"}}

NextPosition ==
    \/ \E props \in PositionProps : Mount("v1", props)
    \/ Unmount("v1")
    \/ \E o \in PositionToastOptions : Show("show", o)
    \/ \E id \in Ids : Dismiss(id)
    \/ \E cfg \in PositionPromiseOptions : Promise("promise", cfg)
    \/ \E i \in DOMAIN calls, outcome \in Outcomes : Settle(i, outcome)
    \/ \E i \in DOMAIN calls : ThenJob(i)
    \/ \E i \in DOMAIN calls : CatchJob(i)

SpecPosition == Init /\ [][NextPosition]_vars

(* ---------------------- Specification SpecUnmount ----------------------- *)
\* one viewport that comes and goes; every dismissal goes through the
\* viewport (timeout or swipe), so every exit-removal timer is one that the
\* viewport's dismissToast started

NextUnmount ==
    \/ \E o \in ViewportToastOptions : Show("show", o)
    \/ \E props \in ViewportProps : Mount("v1", props)
    \/ Unmount("v1")
    \/ \E key \in DOMAIN viewports["v1"].timers : Timeout("v1", key)
    \/ \E id \in Ids : Swipe("v1", id)
    \/ ExitTimer
    \/ Tick(ViewportTickMs)

SpecUnmount == Init /\ [][NextUnmount]_vars

(* ------------------------ Specification SpecBus ------------------------ *)
\* the store object alone, with functions subscribed to it

NextBus ==
    \/ \E fn \in SubscriberNames : Subscribe(fn)
    \/ \E fn \in SubscriberNames : Unsubscribe(fn)
    \/ \E transform \in {"append", "clear"} : StoreUpdate(transform)

SpecBus == Init /\ [][NextBus]_vars

\* the duration a record states: its own number, or the default when it
\* names none; null and non-positive numbers give no positive duration
HasPositiveDuration(t) ==
    ~Has(t, "duration") \/ (t.duration # NullV /\ t.duration[1] > 0)
NominalDuration(t) ==
    IF Has(t, "duration") THEN t.duration[1] ELSE DEFAULT_DURATION

\* C11: while the pointer is over a toast of a viewport the viewport holds
\* no dismissal timer at all, so none fires and none is scheduled; and the
\* step in which the pointer leaves gives every non-exiting record with a
\* positive duration a timer of its full duration.
C11_HoverPause ==
    [][\A v \in Viewports :
          /\ pointer'[v] # Undef => viewports'[v].timers = NoOpts
          /\ (pointer[v] # Undef /\ lastOp'.op = "leave")
                 => \A i \in DOMAIN toasts' :
                        (~Exiting(toasts'[i]) /\ HasPositiveDuration(toasts'[i]))
                            => /\ timeoutKey(toasts'[i])
                                      \in DOMAIN viewports'[v].timers
                               /\ viewports'[v].timers[timeoutKey(toasts'[i])]
                                      = NominalDuration(toasts'[i])]_vars

\* the pointer has just left, time had passed since the first record was
\* built, and that record has a timer of the full default duration again
C11_Witness ==
    /\ lastOp.op = "leave"
    /\ exitQueue # << >>
    /\ exitQueue[1].rem < EXIT_DURATION
    /\ \E i \in DOMAIN toasts :
           /\ toasts[i].instanceId = 1
           /\ ~Exiting(toasts[i])
           /\ ~Has(toasts[i], "duration")
           /\ timeoutKey(toasts[i]) \in DOMAIN viewports["v1"].timers
           /\ viewports["v1"].timers[timeoutKey(toasts[i])] = DEFAULT_DURATION

\* C12: every record built with a positive duration and autopilot not
\* switched off has both delays within [0, duration], whatever the override;
\* with duration 6000 and no override they are 150 and 4000.
C12_AutopilotClamped ==
    \A i \in DOMAIN toasts :
        LET t == toasts[i]
        IN  (HasPositiveDuration(t) /\ ~AutopilotOff(t))
                => /\ InRange(t.autoExpandDelayMs, NominalDuration(t))
                   /\ InRange(t.autoCollapseDelayMs, NominalDuration(t))
                   /\ (NominalDuration(t) = 6000 /\ NoOverride(t))
                          => /\ t.autoExpandDelayMs = Num(150)
                             /\ t.autoCollapseDelayMs = Num(4000)

\* a record of duration 1000 whose override asked for -50 and 20000
C12_Witness ==
    \E i \in DOMAIN toasts :
        /\ toasts[i].instanceId = 2
        /\ Has(toasts[i], "duration") /\ toasts[i].duration = Num(1000)
        /\ Has(toasts[i], "autopilot")
        /\ toasts[i].autopilot = [expand |-> 0 - 50, collapse |-> 20000]
        /\ toasts[i].autoExpandDelayMs = Num(0)
        /\ toasts[i].autoCollapseDelayMs = Num(1000)

\* C13: a record built with autopilot false, or with a duration that is null
\* or not positive, has both autopilot delays unset.
C13_AutopilotDisabled ==
    \A i \in DOMAIN toasts :
        LET t == toasts[i]
        IN  (AutopilotOff(t) \/ ~HasPositiveDuration(t))
                => /\ t.autoExpandDelayMs = NullV
                   /\ t.autoCollapseDelayMs = NullV

\* C14: a record built with a positive duration, autopilot enabled and no
\* collapse override collapses at its own duration minus 2000, clamped into
\* [0, duration].
C14_CollapseFollowsDuration ==
    \A i \in DOMAIN toasts :
        LET t == toasts[i]
            d == NominalDuration(t)
        IN  (HasPositiveDuration(t) /\ ~AutopilotOff(t) /\ NoCollapseOverride(t))
                => t.autoCollapseDelayMs = Num(Min(d, Max(0, d - 2000)))

\* C15: a record built by a call that names a position takes it; a call
\* that names none and replaces the non-exiting record of its id leaves the
\* record in the position it had, and so does a promise branch, which names
\* no position: no such call moves a toast to another position bucket.
C15_PositionResolution ==
    [][/\ \A o \in PositionToastOptions :
              Show("show", o)
                  => /\ Has(o, "position")
                            => RecordOf(toasts', createdId(o)).position
                                   = o.position
                     /\ (~Has(o, "position") /\ LiveIn(toasts, createdId(o)))
                            => RecordOf(toasts', createdId(o)).position
                                   = RecordOf(toasts, createdId(o)).position
       /\ (lastOp'.op \in {"success", "action", "error"} /\ lastOp'.updates = 1)
              => RecordOf(toasts', lastOp'.id).position
                     = RecordOf(toasts, lastOp'.id).position]_vars

Rebuilt(id) ==
    /\ lastOp'.id = id
    /\ lastOp'.op \in {"createToast", "promise", "success", "action", "error"}
    /\ lastOp'.updates = 1

\* C17: a step that builds a record gives it an instanceId that differs from
\* every instanceId issued before; every other record of the registry was
\* there before the step with the instanceId it has after it, so marking a
\* record exiting and the emissions that build nothing leave it alone.
C17_InstanceIdTracksContent ==
    [][\A i \in DOMAIN toasts' :
          IF Rebuilt(toasts'[i].id)
          THEN /\ toasts'[i].instanceId \notin 1..idCounter
               /\ \A j \in DOMAIN toasts :
                      toasts[j].instanceId # toasts'[i].instanceId
          ELSE /\ Present(toasts, toasts'[i].id)
               /\ RecordOf(toasts, toasts'[i].id).instanceId
                      = toasts'[i].instanceId]_vars

\* a promise branch has just rebuilt the loading toast, which had the first
\* instanceId and got the second
C17_Witness ==
    /\ lastOp.op \in {"success", "error"}
    /\ lastOp.updates = 1
    /\ idCounter = 2
    /\ RecordOf(toasts, lastOp.id).instanceId = 2
    /\ RecordOf(toasts, lastOp.id).state = lastOp.op

\* the step was a createToast for id
Created(id) ==
    lastOp'.id = id /\ lastOp'.op \in {"createToast", "promise"}

\* C18: a createToast for an id the registry does not hold appends the
\* record at the end; a createToast for a non-exiting id and an effective
\* updateToast keep the record at its index and the length of the list; and
\* no step changes the relative order of two other records.
C18_InsertionOrder ==
    [][/\ \A id \in Ids :
              /\ (Created(id) /\ ~Present(toasts, id))
                     => /\ Len(toasts') = Len(toasts) + 1
                        /\ toasts'[Len(toasts')].id = id
                        /\ SubSeq(toasts', 1, Len(toasts)) = toasts
              /\ (Rebuilt(id) /\ IF Created(id) THEN LiveIn(toasts, id)
                                 ELSE Present(toasts, id))
                     => /\ Len(toasts') = Len(toasts)
                        /\ FindIndex(toasts', id) = FindIndex(toasts, id)
       /\ \A a, b \in IdsOf(toasts) \cap IdsOf(toasts') :
              (a # b /\ \A id \in {a, b} :
                            ~(Created(id) /\ ~LiveIn(toasts, id)))
                  => (FindIndex(toasts, a) < FindIndex(toasts, b)
                          <=> FindIndex(toasts', a) < FindIndex(toasts', b))]_vars

\* the first of two records has just been replaced where it stood
C18_Witness ==
    /\ lastOp = [op |-> "createToast", id |-> "x", updates |-> 1]
    /\ exitQueue = << >>
    /\ Len(toasts) = 2
    /\ toasts[1].id = "x" /\ toasts[1].instanceId = 3
    /\ toasts[2].id = DefaultId /\ toasts[2].instanceId = 2

\* the keys of the dismissal timers of a viewport that have not fired
PendingKeys(vp) == {k \in DOMAIN vp.timers : vp.timers[k] # Fired}

canExpand(vp, id) == vp.activeId = Undef \/ vp.activeId = id
CanExpandIds(vp) == {id \in IdsOf(vp.toasts) : canExpand(vp, id)}

\* the id of the last non-exiting record of the registry
LastLive(list) ==
    list[CHOOSE i \in DOMAIN list :
             /\ ~Exiting(list[i])
             /\ \A j \in DOMAIN list : ~Exiting(list[j]) => j <= i].id

\* C20: whenever the registry holds a non-exiting record, a mounted viewport
\* permits exactly one toast to expand: the toast under the pointer while
\* the pointer is over one, whatever the store emits meanwhile, and else
\* the most recently inserted non-exiting record.
C20_OneMayExpand ==
    \A v \in Viewports :
        (viewports[v].mounted /\ \E i \in DOMAIN toasts : ~Exiting(toasts[i]))
            => CanExpandIds(viewports[v])
                   = {IF pointer[v] # Undef THEN pointer[v]
                      ELSE LastLive(toasts)}

\* C21: an unmounted viewport is not a subscriber and holds no timer, and
\* no timer a viewport started changes the registry while the viewport is
\* unmounted: neither a dismissal timeout nor the exit-removal timer of its
\* dismissToast.
C21_NoTimerAfterUnmount ==
    [][/\ \A v \in Viewports :
              ~viewports'[v].mounted
                  => v \notin listeners' /\ viewports'[v].timers = NoOpts
       /\ (lastOp'.op \in {"timeout", "exitTimer"} /\ toasts' # toasts)
              => viewports["v1"].mounted]_vars

\* the indices of the registry whose record has the position pos, in order
IndicesAt(list, pos) == {i \in DOMAIN list : list[i].position = pos}

\* C30: for a mounted viewport, which holds the list of the last emission,
\* the buckets partition that list: the bucket of a position holds exactly
\* the records of the registry with this position, in registry order, so
\* every record is in one bucket and no other; and a position is rendered
\* exactly when some record has it.
C30_BucketsPartition ==
    \A v \in Viewports :
        viewports[v].mounted
            => LET buckets == byPosition(viewports[v], position)
               IN  /\ viewports[v].toasts = toasts
                   /\ \A i \in DOMAIN toasts :
                          toasts[i].position \in DOMAIN buckets
                   /\ \A pos \in DOMAIN buckets :
                          /\ Len(buckets[pos]) = Cardinality(IndicesAt(toasts, pos))
                          /\ \A k \in DOMAIN buckets[pos] :
                                 /\ buckets[pos][k].position = pos
                                 /\ \E i \in IndicesAt(toasts, pos) :
                                        /\ toasts[i] = buckets[pos][k]
                                        /\ Cardinality({j \in IndicesAt(toasts, pos) :
                                                           j < i}) = k - 1
                   /\ renderedPositions(viewports[v], position)
                          = {toasts[i].position : i \in DOMAIN toasts}

\* two records share a bucket, in registry order, and no other position is
\* rendered
C30_Witness ==
    /\ viewports["v1"].mounted
    /\ Len(toasts) = 2
    /\ toasts[1].position = "top-left"
    /\ toasts[2].position = "top-left"
    /\ renderedPositions(viewports["v1"], position) = {"top-left"}
    /\ byPosition(viewports["v1"], position)["top-left"] = toasts


(* ----------------------- Specification SpecToast ------------------------ *)
\* One SileoToast component under every order of renders, pointer events,
\* transition ends, measurements and timers.

ToastContents ==
    {[state |-> "success", title |-> Undef, description |-> "Saved to disk",
      button |-> Undef],
     [state |-> "loading", title |-> Undef, description |-> "Please wait",
      button |-> Undef],
     [state |-> "error", title |-> "Failed", description |-> Undef,
      button |-> Undef]}
ToastDelays ==
    {[autoExpandDelayMs |-> NullV, autoCollapseDelayMs |-> NullV],
     [autoExpandDelayMs |-> Num(150), autoCollapseDelayMs |-> Num(300)]}
ContentHeights == {20, 80}

ToastProps(content, delays, exiting, granted) ==
    [id |-> DefaultId, refreshKey |-> 1, exiting |-> exiting,
     canExpand |-> granted] @@ content @@ delays

NextToast ==
    \/ \E content \in ToastContents, delays \in ToastDelays,
          exiting \in BOOLEAN, granted \in BOOLEAN, h \in ContentHeights :
           Setup(ToastProps(content, delays, exiting, granted), h)
    \/ \E exiting \in BOOLEAN, granted \in BOOLEAN :
           Rerender(exiting, granted)
    \/ \E content \in ToastContents, delays \in ToastDelays,
          exiting \in BOOLEAN, granted \in BOOLEAN, h \in ContentHeights :
           Refresh(content, delays, exiting, granted, h)
    \/ PointerEnter
    \/ PointerLeave
    \/ \E property \in {"height", "opacity"}, h \in ContentHeights :
           TransitionEnd(property, h)
    \/ \E h \in ContentHeights : ToastTimer(h)
    \/ \E h \in ContentHeights : Measure(h)
    \/ RemoveToast
    \/ ToastTick(ToastTickMs)

SpecToast == Init /\ [][NextToast]_vars

\* C22: a toast whose exiting input is true is collapsed: open is false in
\* every state in which the component is rendered with exiting true.
C22_ExitingIsCollapsed ==
    (toast.mounted /\ toast.props.exiting) => ~open(toast)


\* C24: while the displayed state is loading the toast is not open and may
\* not expand, whatever isExpanded, the viewport's grant and the delays are.
C24_LoadingForcesCollapsed ==
    (toast.mounted /\ isLoading(toast))
        => ~open(toast) /\ ~allowExpand(toast)

\* a loading toast with a description, hovered, granted expansion by the
\* viewport and with both delays set
C24_Witness ==
    /\ toast.mounted
    /\ isLoading(toast)
    /\ hasDesc(toast)
    /\ toast.isExpanded
    /\ toast.props.canExpand
    /\ toast.props.autoExpandDelayMs # NullV
    /\ lastOp.op = "mouseenter"


\* C23: the displayed content is never replaced while the toast is open:
\* every step of a rendered component that changes view starts in a state
\* in which open is false.
C23_NoSwapWhileOpen ==
    [][(toast.mounted /\ toast'.mounted /\ toast'.view # toast.view)
           => ~open(toast)]_vars


(* --------------------- Specification SpecAutopilot ---------------------- *)
\* One component left to its autopilot: no pointer and no new instance, so
\* that every expansion and every collapse is the autopilot's.  The delays
\* are the pairs resolveAutopilot can build for a duration of 300 or more.

AutopilotDelays ==
    ToastDelays
    \cup {[autoExpandDelayMs |-> Num(0), autoCollapseDelayMs |-> Num(300)],
          [autoExpandDelayMs |-> Num(150), autoCollapseDelayMs |-> Num(0)]}

NextAutopilot ==
    \/ \E content \in ToastContents, delays \in AutopilotDelays,
          exiting \in BOOLEAN, granted \in BOOLEAN, h \in ContentHeights :
           Setup(ToastProps(content, delays, exiting, granted), h)
    \/ \E exiting \in BOOLEAN, granted \in BOOLEAN :
           Rerender(exiting, granted)
    \/ \E h \in ContentHeights : ToastTimer(h)
    \/ \E h \in ContentHeights : Measure(h)
    \/ RemoveToast
    \/ ToastTick(ToastTickMs)

SpecAutopilot == Init /\ [][NextAutopilot]_vars

\* the autopilot applies: describable content, expansion permitted, not
\* exiting
AutopilotApplies(c) ==
    c.mounted /\ hasDesc(c) /\ allowExpand(c) /\ ~c.props.exiting

\* C25: with a delay set, a toast the pointer never touches is expanded
\* from the end of the expand delay to the end of the collapse delay and
\* collapsed once the collapse delay has elapsed; with both delays unset it
\* has no autopilot timer and stays collapsed.
C25_AutopilotSchedule ==
    AutopilotApplies(toast) =>
        IF toast.props.autoExpandDelayMs = NullV
           /\ toast.props.autoCollapseDelayMs = NullV
        THEN /\ ~toast.isExpanded
             /\ TimerNames(toast) \cap {"autoExpand", "autoCollapse"} = {}
        ELSE /\ "autoCollapse" \notin TimerNames(toast) => ~toast.isExpanded
             /\ ("autoCollapse" \in TimerNames(toast)
                 /\ "autoExpand" \notin TimerNames(toast)) => toast.isExpanded


\* what the autopilot reschedules on: exiting, the permission to expand and
\* the two delays
AutopilotInputs(c) ==
    <<c.props.exiting, allowExpand(c), c.props.autoExpandDelayMs,
      c.props.autoCollapseDelayMs>>

\* the timers called name that are pending
TimersNamed(c, name) == {i \in DOMAIN c.timers : c.timers[i].name = name}

\* the timer i is one the autopilot starts from the props of c
FreshAutopilotTimer(c, i) ==
    /\ ~c.props.exiting
    /\ allowExpand(c)
    /\ c.timers[i].name = "autoExpand"
           => c.props.autoExpandDelayMs = Num(c.timers[i].rem)
    /\ c.timers[i].name = "autoCollapse"
           => c.props.autoCollapseDelayMs = Num(c.timers[i].rem)

\* C26: a toast has at most one pending auto-expand and at most one pending
\* auto-collapse timer, and after a step that changes exiting, the
\* permission to expand or a delay, every pending autopilot timer is one
\* started by that step: none when exiting or not permitted, else with its
\* full delay still to run.
C26_ChangeCancelsAutopilot ==
    [][toast'.mounted =>
           /\ Cardinality(TimersNamed(toast', "autoExpand")) <= 1
           /\ Cardinality(TimersNamed(toast', "autoCollapse")) <= 1
           /\ (toast.mounted /\ AutopilotInputs(toast') # AutopilotInputs(toast))
                  => \A i \in TimersNamed(toast', "autoExpand")
                              \cup TimersNamed(toast', "autoCollapse") :
                         FreshAutopilotTimer(toast', i)]_vars


\* C28: when the header key changes, the header shown until then becomes
\* the one prev layer and the header exit timer is started anew with 150 ms;
\* a prev layer is there exactly while that timer is pending, and only the
\* timer discards it.
C28_HeaderCrossFade ==
    [][toast'.mounted =>
           /\ Len(toast'.headerLayer.prev) <= 1
           /\ Cardinality(TimersNamed(toast', "headerExit")) <= 1
           /\ toast'.headerLayer.prev # NullV
                  <=> TimersNamed(toast', "headerExit") # {}
           /\ toast.mounted =>
                  IF toast'.headerLayer.current.key
                         # toast.headerLayer.current.key
                  THEN /\ toast'.headerLayer.prev = <<toast.headerLayer.current>>
                       /\ \A i \in TimersNamed(toast', "headerExit") :
                              toast'.timers[i].rem = HEADER_EXIT_MS
                  ELSE toast'.headerLayer.prev # toast.headerLayer.prev
                           => /\ toast'.headerLayer.prev = NullV
                              /\ lastOp'.op = "headerExit"]_vars

\* the key changed a second time while the prev layer of the first change
\* was still shown, on an expanded toast
C28_Witness ==
    /\ toast.mounted
    /\ lastOp.op = "refresh"
    /\ toast.applied = 3
    /\ toast.isExpanded
    /\ toast.headerLayer.prev # NullV
    /\ toast.headerLayer.prev[1].key # toast.headerLayer.current.key
    /\ toast.timers # << >>
    /\ \A i \in TimersNamed(toast, "headerExit") :
           toast.timers[i].rem = HEADER_EXIT_MS
    /\ \E i \in DOMAIN toast.timers : toast.timers[i].rem < HEADER_EXIT_MS


\* C29: the expanded height is at least 90 (2.25 x 40); while the toast is
\* open it is max(90, 40 + content height); a step that leaves the toast
\* collapsed leaves the expanded height as it was, whatever the content
\* measures.
C29_ExpandedHeight ==
    [][toast'.mounted =>
           /\ expanded(toast') >= 90
           /\ open(toast')
                  => expanded(toast') = Max(90, 40 + toast'.contentHeight)
           /\ (toast.mounted /\ ~open(toast'))
                  => expanded(toast') = expanded(toast)]_vars

\* a collapsed toast that was open at content height 80 and whose content
\* has since been measured at 20
C29_Witness ==
    /\ toast.mounted
    /\ lastOp.op = "measure"
    /\ hasDesc(toast)
    /\ ~open(toast)
    /\ toast.contentHeight = 20
    /\ expanded(toast) = 120


(* ----------------------- Specification SpecSwipe ------------------------ *)
\* The store, a mounted viewport and the pointer tracking of a rendered
\* toast: pointer events of every displacement, on and off the action
\* button, between dismissals and exit removals.

PointerYs == {0, 10, 40, 71}
\* sticky toasts: the viewport starts no dismissal timer for them
SwipeToastOptions == {[id |-> "x", duration |-> NullV]}

NextSwipe ==
    \/ \E o \in SwipeToastOptions : Show("show", o)
    \/ \E id \in Ids : Dismiss(id)
    \/ ExitTimer
    \/ \E props \in ViewportProps : Mount("v1", props)
    \/ \E id \in Ids, onButton \in BOOLEAN, y \in PointerYs :
           PointerDown("v1", id, onButton, y)
    \/ \E id \in Ids, y \in PointerYs : PointerMove("v1", id, y)
    \/ \E id \in Ids, y \in PointerYs : PointerUp("v1", id, y)
    \/ Tick(ViewportTickMs)

SpecSwipe == Init /\ [][NextSwipe]_vars

\* C27: pointer-down arms the tracking exactly when it is outside the
\* action button of a toast that is not exiting; pointer-up asks the
\* viewport to dismiss exactly when the tracking was armed and the pointer
\* is more than 30 px from where it went down, and in either case ends the
\* tracking and resets the style; the translation is between -20 and 20 px;
\* pointer-up on a toast that is exiting changes nothing in the store.
C27_SwipeToDismiss ==
    [][/\ swipe'.transform # NullV
              => swipe'.transform[1] \in (0 - 20)..20
       /\ \A id \in Ids, onButton \in BOOLEAN, y \in PointerYs :
              PointerDown("v1", id, onButton, y)
                  => IF ~onButton /\ ~exitingProp("v1", id)
                     THEN swipe'.id = id /\ swipe'.pointerStart = Num(y)
                     ELSE swipe' = swipe
       /\ \A id \in Ids, y \in PointerYs :
              PointerUp("v1", id, y)
                  => /\ lastOp'.op = "swipe"
                            <=> /\ swipe.id = id
                                /\ swipe.pointerStart # NullV
                                /\ Abs(y - swipe.pointerStart[1]) > 30
                     /\ swipe' = NoSwipe
                     /\ (lastOp'.op # "swipe" \/ exitingProp("v1", id))
                            => /\ toasts' = toasts
                               /\ exitQueue' = exitQueue
                     /\ (lastOp'.op = "swipe" /\ ~exitingProp("v1", id))
                            => /\ ExitingIn(toasts', id)
                               /\ Len(exitQueue') = Len(exitQueue) + 1]_vars

\* a dismiss was asked for by pointer-up on a toast that went exiting while
\* its tracking was armed, and the store did not change
C27_Witness ==
    /\ lastOp = [op |-> "swipe", id |-> "x", updates |-> 0]
    /\ ExitingIn(toasts, "x")
    /\ swipe = NoSwipe
    /\ Len(exitQueue) = 1


\* C31: the step in which the toast under the pointer leaves the registry,
\* with no pointer-leave delivered, takes the viewport out of its hover
\* pause and gives every live record with a positive duration a dismissal
\* timer again.
C31_HoverEndsWithToast ==
    [][\A v \in Viewports :
          (/\ pointer[v] # Undef
           /\ pointer'[v] = Undef
           /\ lastOp'.op # "leave"
           /\ viewports'[v].mounted)
              => /\ ~viewports'[v].hovered
                 /\ \A i \in DOMAIN toasts' :
                        (~Exiting(toasts'[i]) /\ HasPositiveDuration(toasts'[i]))
                            => timeoutKey(toasts'[i])
                                   \in DOMAIN viewports'[v].timers]_vars


\* C33: in a mounted viewport that is not in its hover pause, every
\* non-exiting record with a positive duration has a pending dismissal
\* timer, records built before the viewport mounted included.
C33_LiveRecordsHaveTimers ==
    \A v \in Viewports :
        (viewports[v].mounted /\ ~viewports[v].hovered)
            => \A i \in DOMAIN toasts :
                   (~Exiting(toasts[i]) /\ HasPositiveDuration(toasts[i]))
                       => timeoutKey(toasts[i]) \in PendingKeys(viewports[v])


(* ---------------------- Specification SpecOverlap ----------------------- *)
\* A promise() call that is pending while other calls of the API build and
\* remove records.  Only one of the two reactions of a settlement builds a
\* record, so the operation may settle with room for one.

NextOverlap ==
    \/ \E cfg \in PromiseOptions : Promise("promise", cfg)
    \/ \E m \in {"show", "info"}, o \in Opt("id", {"x"}) : Show(m, o)
    \/ \E i \in DOMAIN calls, out \in Outcomes : SettleWithin(i, out, 1)
    \/ \E i \in DOMAIN calls : ThenJob(i)
    \/ \E i \in DOMAIN calls : CatchJob(i)
    \/ \E id \in Ids : Dismiss(id)
    \/ ExitTimer
    \/ Tick(TickMs)

SpecOverlap == Init /\ [][NextOverlap]_vars

\* C32: the outcome of a promise() call is applied to the loading toast the
\* call created: a step in which a branch of the call updates a record
\* replaces a record in state loading, and leaves every other record as it
\* was.
C32_OutcomeOnOwnToast ==
    [][(lastOp'.op \in {"success", "error", "action"} /\ lastOp'.updates = 1)
           => /\ Get(RecordOf(toasts, lastOp'.id), "state") = "loading"
              /\ \A k \in DOMAIN toasts :
                     toasts[k].id # lastOp'.id => toasts'[k] = toasts[k]]_vars


(* -------------------- Specification SpecTwoViewports -------------------- *)
\* Two viewports mounted on the one store, each with its own dismissal
\* timers; a hover pause in one of them puts its timers out of step with
\* the other's.

TwoViewportsToastOptions ==
    {a @@ [duration |-> Num(900)] : a \in Opt("id", {"x"})}

NextTwoViewports ==
    \/ \E v \in Viewports, props \in ViewportProps : Mount(v, props)
    \/ \E o \in TwoViewportsToastOptions : Show("show", o)
    \/ \E v \in Viewports :
           \E key \in DOMAIN viewports[v].timers : Timeout(v, key)
    \/ \E v \in Viewports, id \in Ids : Enter(v, id)
    \/ \E v \in Viewports : Leave(v)
    \/ ExitTimer
    \/ Tick(TickMs)

SpecTwoViewports == Init /\ [][NextTwoViewports]_vars

\* C34: when a dismissal timer of a viewport fires for a record that is
\* not exiting, the record is marked exiting in one store update and one
\* exit removal is started; when it fires for a record that is exiting
\* already, as the timer of another viewport does later, nothing changes.
C34_OneExpiryPerRecord ==
    [][\A v \in Viewports :
          \A key \in DOMAIN viewports[v].timers :
              Timeout(v, key)
                  => IF ExitingIn(toasts, key[1])
                     THEN /\ toasts' = toasts
                          /\ exitQueue' = exitQueue
                          /\ lastOp'.updates = 0
                     ELSE /\ toasts' = markExiting(toasts, key[1])
                          /\ exitQueue' = Append(exitQueue,
                                 [id |-> key[1], rem |-> EXIT_DURATION])
                          /\ lastOp'.updates = 1]_vars

\* with both viewports mounted, the timer of the second has just fired for a
\* record the timer of the first had marked exiting less than 600 ms before
C34_Witness ==
    /\ viewports["v1"].mounted /\ viewports["v2"].mounted
    /\ lastOp = [op |-> "timeout", id |-> "x", updates |-> 0]
    /\ ExitingIn(toasts, "x")
    /\ \E k \in DOMAIN viewports["v1"].timers :
           /\ k[1] = "x"
           /\ k \in DOMAIN viewports["v2"].timers
           /\ viewports["v1"].timers[k] = Fired
           /\ viewports["v2"].timers[k] = Fired
    /\ Len(exitQueue) = 1
    /\ exitQueue[1].rem < EXIT_DURATION

====
